---------------------------- MODULE Spec2Model ----------------------------
(***************************************************************************)
(* Model of make_graph.py: parse_benchmark_results, create_latency_chart,  *)
(* create_throughput_chart and the __main__ block.                         *)
(*                                                                         *)
(* Text is a sequence of one-character strings.  A float is an exact       *)
(* ratio <<num, den>> in lowest terms; <<1, 0>> is +inf, the value numpy   *)
(* gives for a positive number divided by 0.0.  Binary rounding of the     *)
(* floats is not modelled.                                                 *)
(***************************************************************************)
EXTENDS Integers, Sequences, FiniteSets, TLC

\* ------------------------------------------------------------------ text
Digit == {"0", "1", "2", "3", "4", "5", "6", "7", "8", "9"}
Upper == {"A", "B", "C", "D", "E", "F", "G", "H", "I", "J", "K", "L", "M",
          "N", "O", "P", "Q", "R", "S", "T", "U", "V", "W", "X", "Y", "Z"}
Lower == {"a", "b", "c", "d", "e", "f", "g", "h", "i", "j", "k", "l", "m",
          "n", "o", "p", "q", "r", "s", "t", "u", "v", "w", "x", "y", "z"}
\* \w, \s and [\d\.] of the pattern
Word == Upper \cup Lower \cup Digit \cup {"_"}
Space == {" ", "\t", "\n", "\r", "\f"}
DigitDot == Digit \cup {"."}

BenchmarkLit == <<"B", "e", "n", "c", "h", "m", "a", "r", "k">>
NsOpLit == <<"n", "s", "/", "o", "p">>

SetMax(S) == CHOOSE x \in S : \A y \in S : y <= x
SetMin(S) == CHOOSE x \in S : \A y \in S : x <= y

\* the text lit stands in line at position p
LitAt(line, p, lit) ==
    /\ p + Len(lit) - 1 <= Len(line)
    /\ SubSeq(line, p, p + Len(lit) - 1) = lit

\* last position of the longest run of characters of class C that starts at
\* p (p - 1 when the run is empty)
RECURSIVE Run(_, _, _)
Run(line, p, C) ==
    IF p <= Len(line) /\ line[p] \in C THEN Run(line, p + 1, C) ELSE p - 1

\* ------------------------------------------------------- the pattern
\* r'^(Benchmark\w+)(-\d+)?\s+\d+\s+([\d\.]*)\s+ns/op' as the items that
\* follow the '^'.  A run is min or more characters of a class; the suffix
\* item is the optional group (-\d+)?.
Lit(text) == [kind |-> "lit", text |-> text, class |-> {}, min |-> 0]
RunOf(class, min) ==
    [kind |-> "run", text |-> <<>>, class |-> class, min |-> min]
Pattern ==
    << Lit(BenchmarkLit), RunOf(Word, 1),
       [kind |-> "suffix", text |-> <<"-">>, class |-> Digit, min |-> 1],
       RunOf(Space, 1), RunOf(Digit, 1), RunOf(Space, 1), RunOf(DigitDot, 0),
       RunOf(Space, 1), Lit(NsOpLit) >>

\* the positions at which the item can end when it starts at p (p - 1: the
\* item matches the empty text)
ItemEnds(line, item, p) ==
    CASE item.kind = "lit" ->
            IF LitAt(line, p, item.text) THEN {p + Len(item.text) - 1} ELSE {}
      [] item.kind = "run" ->
            (p + item.min - 1) .. Run(line, p, item.class)
      [] item.kind = "suffix" ->
            {p - 1} \cup
            (IF LitAt(line, p, item.text)
             THEN (p + item.min) .. Run(line, p + 1, item.class) ELSE {})

\* every way the items k, k + 1, ... can follow one of the partial matches;
\* a partial match is the tuple of the positions its items end at
RECURSIVE MatchesFrom(_, _, _)
MatchesFrom(line, k, partials) ==
    IF k > Len(Pattern) THEN partials
    ELSE MatchesFrom(line, k + 1,
             UNION {{Append(t, e) :
                        e \in ItemEnds(line, Pattern[k], t[Len(t)] + 1)} :
                    t \in partials})

\* a is b or comes before it in the order of the engine's search
LexLeq(a, b) ==
    \A i \in 1 .. Len(a) : (\A j \in 1 .. (i - 1) : a[j] = b[j]) => a[i] <= b[i]

NoMatch == [ok |-> FALSE]

\* the match that starts at s.  Every quantifier is greedy, so the
\* backtracking engine finds first the match whose items end latest, the
\* earlier item deciding.
MatchAt(line, s) ==
    LET M == MatchesFrom(line, 1, {<<s - 1>>}) IN
    IF M = {} THEN NoMatch
    ELSE LET t == CHOOSE x \in M : \A y \in M : LexLeq(y, x)
         IN  [ok |-> TRUE,
              g1 |-> SubSeq(line, s, t[3]),
              g2 |-> SubSeq(line, t[3] + 1, t[4]),
              g3 |-> SubSeq(line, t[7] + 1, t[8])]

\* a search that may start anywhere in the line
StartAnywhere(line) == 1 .. (Len(line) + 1)
\* '^' without re.MULTILINE: the match can start at the first character only
StartPositions(line) == {1}

\* re.search(pattern, line): the match at the leftmost start that has one
re_search(line) ==
    LET S == {s \in StartPositions(line) : MatchAt(line, s).ok}
    IN  IF S = {} THEN NoMatch ELSE MatchAt(line, SetMin(S))

\* ------------------------------------------------------------- floats
RECURSIVE Gcd(_, _)
Gcd(a, b) == IF b = 0 THEN a ELSE Gcd(b, a % b)

\* a ratio in lowest terms; n/0 with n > 0 is +inf
Ratio(n, d) ==
    IF d = 0 THEN <<1, 0>>
    ELSE LET g == Gcd(n, d) IN <<n \div g, d \div g>>

Inf == <<1, 0>>
IsFinite(x) == x[2] # 0

DigitValue(c) ==
    CASE c = "0" -> 0 [] c = "1" -> 1 [] c = "2" -> 2 [] c = "3" -> 3
      [] c = "4" -> 4 [] c = "5" -> 5 [] c = "6" -> 6 [] c = "7" -> 7
      [] c = "8" -> 8 [] c = "9" -> 9

\* the digits of s read as one decimal integer, and 10 ^ (their number)
RECURSIVE DigitsValue(_)
DigitsValue(s) ==
    IF s = <<>> THEN 0
    ELSE 10 * DigitsValue(SubSeq(s, 1, Len(s) - 1)) + DigitValue(s[Len(s)])

RECURSIVE Pow10(_)
Pow10(k) == IF k = 0 THEN 1 ELSE 10 * Pow10(k - 1)

Dots(s) == {i \in 1 .. Len(s) : s[i] = "."}

\* float(s) accepts a text over digits and '.' when it has at most one '.'
\* and at least one digit ('5', '5.', '.5', '2000.0'); it raises ValueError
\* on the others ('', '.', '1.2.3')
FloatOk(s) ==
    /\ \A i \in 1 .. Len(s) : s[i] \in DigitDot
    /\ Cardinality(Dots(s)) <= 1
    /\ Len(s) - Cardinality(Dots(s)) >= 1

float(s) ==
    LET d == IF Dots(s) = {} THEN Len(s) + 1 ELSE SetMin(Dots(s))
        ip == SubSeq(s, 1, d - 1)
        fp == SubSeq(s, d + 1, Len(s))
    IN  Ratio(DigitsValue(ip \o fp), Pow10(Len(fp)))

\* ------------------------------------------------------------ inputs
\* the two benchmark names the charts select (lines 21 and 43)
LATENCY_NAME == BenchmarkLit \o <<"S", "e", "r", "v", "e", "r", "E", "2", "E">>
THROUGHPUT_NAME ==
    BenchmarkLit \o <<"S", "e", "r", "v", "e", "r", "T", "h", "r", "o", "u",
                      "g", "h", "p", "u", "t">>
\* another benchmark, whose name starts with the throughput benchmark's
OtherName == THROUGHPUT_NAME \o <<"T", "C", "P">>

NL == <<"\n">>
SP == <<" ">>
Par8 == <<"-", "8">>
Par4 == <<"-", "4">>
Iter1000 == <<"1", "0", "0", "0">>
Iter500 == <<"5", "0", "0">>

\* '<name><par> <iters> <lat> ns/op' and a line end, as 'go test -bench' prints
BenchLine(name, par, iters, lat) ==
    name \o par \o SP \o iters \o SP \o lat \o SP \o NsOpLit \o NL

\* latency texts float() accepts (zero and a fraction among them), and texts
\* it rejects
Lat2000 == <<"2", "0", "0", "0", ".", "0">>
GoodLatencies == {Lat2000, <<"3", "0", "0", "0">>}
ZeroLatencies == {<<"0">>, <<"0", ".", "0">>, <<"6", "2", ".", "5">>}
EdgeLatencies == {<<".", "5">>, <<"5", ".">>}
BadLatencies == {<<>>, <<".">>, <<"1", ".", "2", ".", "3">>}

\* lines of a results file: benchmark lines of both charts, with and without
\* the parallelism suffix, and the lines around them in real output
WellFormedLines ==
    {BenchLine(n, p, Iter1000, l) :
        n \in {LATENCY_NAME, THROUGHPUT_NAME}, p \in {Par8, <<>>},
        l \in GoodLatencies}
EdgeLines ==
    {BenchLine(THROUGHPUT_NAME, Par4, Iter500, l) : l \in ZeroLatencies}
        \cup {BenchLine(LATENCY_NAME, <<>>, Iter500, l) : l \in EdgeLatencies}
BadLatencyLines ==
    {BenchLine(LATENCY_NAME, Par8, Iter1000, l) : l \in BadLatencies}
VariantLines ==
    { BenchLine(LATENCY_NAME, Par8, Iter500, Lat2000),
      BenchLine(OtherName, Par8, Iter1000, Lat2000),
      \* trailing columns
      LATENCY_NAME \o Par8 \o SP \o Iter1000 \o SP \o Lat2000 \o SP
          \o NsOpLit \o <<" ", "1", "6", " ", "B", "/", "o", "p">> \o NL,
      \* tabs between the columns
      THROUGHPUT_NAME \o Par4 \o <<"\t">> \o Iter500 \o <<"\t", " ">>
          \o Lat2000 \o <<"\t">> \o NsOpLit \o NL }
OtherLines ==
    { NL,
      <<"P", "A", "S", "S">> \o NL,
      \* something before the Benchmark token
      SP \o BenchLine(LATENCY_NAME, Par8, Iter1000, Lat2000),
      <<"l", "o", "g", ":", " ">>
          \o BenchLine(THROUGHPUT_NAME, Par4, Iter500, Lat2000),
      \* no word character after 'Benchmark', no iteration count, another
      \* unit, two suffixes
      BenchLine(BenchmarkLit, Par8, Iter1000, Lat2000),
      LATENCY_NAME \o Par8 \o SP \o Lat2000 \o SP \o NsOpLit \o NL,
      LATENCY_NAME \o Par8 \o SP \o Iter1000 \o SP \o Lat2000 \o SP
          \o <<"m", "s", "/", "o", "p">> \o NL,
      BenchLine(LATENCY_NAME, Par8 \o Par4, Iter1000, Lat2000) }
Lines ==
    WellFormedLines \cup EdgeLines \cup BadLatencyLines \cup VariantLines
        \cup OtherLines

\* ------------------------------------------------------------ bounds
\* lines in the results file; records in a dataset handed to the chart
\* functions directly; calls of the chart functions on one dataset
MaxLines == 2
MaxRecords == 3
MaxCalls == 2

RECURSIVE SeqsOfLen(_, _)
SeqsOfLen(S, n) ==
    IF n = 0 THEN {<<>>}
    ELSE {Append(s, x) : s \in SeqsOfLen(S, n - 1), x \in S}
SeqsUpTo(S, n) == UNION {SeqsOfLen(S, k) : k \in 0 .. n}

\* ------------------------------------------------------------ records
\* lines 13-16: the dict appended for a match
RecordWithSuffix(m) == [name |-> m.g1 \o m.g2, latency_ns |-> float(m.g3)]
RecordOf(m) == [name |-> m.g1, latency_ns |-> float(m.g3)]

\* pd.DataFrame(results): no columns when the list is empty
DataFrame(rows) ==
    [columns |-> IF rows = <<>> THEN {} ELSE {"name", "latency_ns"},
     rows |-> rows]
NoFrame == DataFrame(<<>>)
\* df.empty
Empty(d) == d.rows = <<>> \/ d.columns = {}

StartsWith(a, b) == Len(a) >= Len(b) /\ SubSeq(a, 1, Len(b)) = b
\* the == of df['name'] == '...' on one row
NameEq(a, b) == a = b

RECURSIVE Filter(_, _)
Filter(rows, name) ==
    IF rows = <<>> THEN <<>>
    ELSE (IF NameEq(Head(rows).name, name) THEN <<Head(rows)>> ELSE <<>>)
             \o Filter(Tail(rows), name)
\* df[df['name'] == name]: a new frame with the rows the mask keeps
Select(d, name) == [columns |-> d.columns, rows |-> Filter(d.rows, name)]

\* --------------------------------------------------------- arithmetic
NANOS_PER_SEC == 1000000000

Add(x, y) ==
    IF ~IsFinite(x) \/ ~IsFinite(y) THEN Inf
    ELSE Ratio(x[1] * y[2] + y[1] * x[2], x[2] * y[2])

\* 1_000_000_000 / latency_ns on a float64 column: x / 0.0 is inf
Qps(lat) == Ratio(NANOS_PER_SEC * lat[2], lat[1])

RECURSIVE Sum(_)
Sum(xs) == IF xs = <<>> THEN <<0, 1>> ELSE Add(Head(xs), Sum(Tail(xs)))

\* Series.mean()
Mean(xs) ==
    LET s == Sum(xs) IN
    IF ~IsFinite(s) THEN Inf ELSE Ratio(s[1], s[2] * Len(xs))

Column(rows, c) == [i \in 1 .. Len(rows) |-> rows[i][c]]

\* -------------------------------------------------------------- state
VARIABLES
    file,           \* the lines of bench_results.txt
    pc,             \* the statement about to run
    ret,            \* where the running chart function returns to
    fh,             \* the file object f: "none", "open", "closed"
    pos,            \* index of the next line the loop reads
    results,        \* the list results of parse_benchmark_results
    df,             \* the DataFrame in main
    latency_df,     \* local of create_latency_chart
    throughput_df,  \* local of create_throughput_chart
    avg_qps,        \* local of create_throughput_chart
    figs,           \* numbers of the figures pyplot holds open
    fig,            \* the figure of the running chart function
    plot,           \* what is drawn on the current axes
    images,         \* output path -> <<>> or <<the data saved in the file>>
    out,            \* messages printed
    err,            \* the exception that ended the run, or "none"
    trace,          \* the events so far, in order
    calls           \* chart calls made on the dataset

vars == <<file, pc, ret, fh, pos, results, df, latency_df, throughput_df,
          avg_qps, figs, fig, plot, images, out, err, trace, calls>>

LATENCY_PNG == "benchmark_latency.png"
THROUGHPUT_PNG == "benchmark_throughput.png"
Paths == {LATENCY_PNG, THROUGHPUT_PNG}

Locals ==
    /\ latency_df = NoFrame
    /\ throughput_df = NoFrame
    /\ avg_qps = <<0, 1>>
    /\ figs = {}
    /\ fig = 0
    /\ plot = <<>>
    /\ images = [p \in Paths |-> <<>>]
    /\ out = <<>>
    /\ err = "none"
    /\ trace = <<>>
    /\ calls = 0

\* the program about to run on some results file
Init ==
    /\ file \in SeqsUpTo(Lines, MaxLines)
    /\ pc = "l71"
    /\ ret = "none"
    /\ fh = "none"
    /\ pos = 1
    /\ results = <<>>
    /\ df = NoFrame
    /\ Locals

\* line 11 on each line a results file can hold
Match == [l \in Lines |-> re_search(l)]

\* --------------------------------------------- parse_benchmark_results
\* line 71 calls the function; line 7
ParseCall ==
    /\ pc = "l71"
    /\ results' = <<>>
    /\ pc' = "l8"
    /\ trace' = Append(trace, "parse_call")
    /\ UNCHANGED <<file, ret, fh, pos, df, latency_df, throughput_df, avg_qps,
                   figs, fig, plot, images, out, err, calls>>

\* line 8: with open(filepath, 'r') as f
OpenFile ==
    /\ pc = "l8"
    /\ fh' = "open"
    /\ pos' = 1
    /\ pc' = "l9"
    /\ trace' = Append(trace, "file_open")
    /\ UNCHANGED <<file, ret, results, df, latency_df, throughput_df, avg_qps,
                   figs, fig, plot, images, out, err, calls>>

\* lines 9-12: a line the pattern does not match
ParseSkip ==
    /\ pc = "l9"
    /\ pos <= Len(file)
    /\ ~Match[file[pos]].ok
    /\ pos' = pos + 1
    /\ UNCHANGED <<file, pc, ret, fh, results, df, latency_df, throughput_df,
                   avg_qps, figs, fig, plot, images, out, err, trace, calls>>

\* lines 9-16: a match whose group 3 float() accepts
ParseAppend ==
    /\ pc = "l9"
    /\ pos <= Len(file)
    /\ Match[file[pos]].ok
    /\ FloatOk(Match[file[pos]].g3)
    /\ results' = Append(results, RecordOf(Match[file[pos]]))
    /\ pos' = pos + 1
    /\ UNCHANGED <<file, pc, ret, fh, df, latency_df, throughput_df, avg_qps,
                   figs, fig, plot, images, out, err, trace, calls>>

\* lines 9-15: a match whose group 3 float() rejects.  Nothing catches the
\* ValueError: the with block closes the file and the run ends.
ParseRaise ==
    /\ pc = "l9"
    /\ pos <= Len(file)
    /\ Match[file[pos]].ok
    /\ ~FloatOk(Match[file[pos]].g3)
    /\ fh' = "closed"
    /\ err' = "ValueError"
    /\ pc' = "crashed"
    /\ trace' = Append(trace, "file_close")
    /\ UNCHANGED <<file, ret, pos, results, df, latency_df, throughput_df,
                   avg_qps, figs, fig, plot, images, out, calls>>

\* line 9 at the end of the file; leaving the with block closes f
ParseEnd ==
    /\ pc = "l9"
    /\ pos > Len(file)
    /\ fh' = "closed"
    /\ pc' = "l17"
    /\ trace' = Append(trace, "file_close")
    /\ UNCHANGED <<file, ret, pos, results, df, latency_df, throughput_df,
                   avg_qps, figs, fig, plot, images, out, err, calls>>

\* line 17, and the assignment of line 71
ParseReturn ==
    /\ pc = "l17"
    /\ df' = DataFrame(results)
    /\ pc' = "l72"
    /\ trace' = Append(trace, "parse_return")
    /\ UNCHANGED <<file, ret, fh, pos, results, latency_df, throughput_df,
                   avg_qps, figs, fig, plot, images, out, err, calls>>

\* ---------------------------------------------------------------- main
\* the chart is called whether or not the dataset has rows
MainCallLatencyUnguarded ==
    /\ pc = "l72"
    /\ pc' = "l21"
    /\ ret' = "l74"
    /\ calls' = calls + 1
    /\ trace' = Append(trace, "latency_call")
    /\ UNCHANGED <<file, fh, pos, results, df, latency_df, throughput_df,
                   avg_qps, figs, fig, plot, images, out, err>>

\* lines 72-73: the dataset has rows, create_latency_chart(df) is called
MainCallLatency ==
    /\ pc = "l72"
    /\ ~Empty(df)
    /\ pc' = "l21"
    /\ ret' = "l74"
    /\ calls' = calls + 1
    /\ trace' = Append(trace, "latency_call")
    /\ UNCHANGED <<file, fh, pos, results, df, latency_df, throughput_df,
                   avg_qps, figs, fig, plot, images, out, err>>

\* lines 72, 75-76: no rows; the program says so and ends
MainNoData ==
    /\ pc = "l72"
    /\ Empty(df)
    /\ out' = Append(out, "no_data")
    /\ pc' = "done"
    /\ UNCHANGED <<file, ret, fh, pos, results, df, latency_df, throughput_df,
                   avg_qps, figs, fig, plot, images, err, trace, calls>>

\* line 74: create_throughput_chart(df), after which the program ends
MainCallThroughput ==
    /\ pc = "l74"
    /\ pc' = "l43"
    /\ ret' = "done"
    /\ calls' = calls + 1
    /\ trace' = Append(trace, "throughput_call")
    /\ UNCHANGED <<file, fh, pos, results, df, latency_df, throughput_df,
                   avg_qps, figs, fig, plot, images, out, err>>

\* plt.subplots(): a new figure, numbered after the open ones
NewFigure == IF figs = {} THEN 1 ELSE SetMax(figs) + 1

\* ------------------------------------------------ create_latency_chart
\* line 21; df['name'] raises KeyError on a frame without columns
LatencyFilter ==
    /\ pc = "l21"
    /\ IF "name" \in df.columns
       THEN /\ latency_df' = Select(df, LATENCY_NAME)
            /\ pc' = "l22"
            /\ err' = err
       ELSE /\ latency_df' = latency_df
            /\ pc' = "crashed"
            /\ err' = "KeyError"
    /\ UNCHANGED <<file, ret, fh, pos, results, df, throughput_df, avg_qps,
                   figs, fig, plot, images, out, trace, calls>>

\* the skip ends the program instead of the function
LatencySkipExits ==
    /\ pc = "l22"
    /\ Empty(latency_df)
    /\ out' = Append(out, "no_latency_data")
    /\ pc' = "done"
    /\ trace' = Append(trace, "latency_return")
    /\ UNCHANGED <<file, ret, fh, pos, results, df, latency_df, throughput_df,
                   avg_qps, figs, fig, plot, images, err, calls>>

\* lines 22-24
LatencySkip ==
    /\ pc = "l22"
    /\ Empty(latency_df)
    /\ out' = Append(out, "no_latency_data")
    /\ pc' = ret
    /\ trace' = Append(trace, "latency_return")
    /\ UNCHANGED <<file, ret, fh, pos, results, df, latency_df, throughput_df,
                   avg_qps, figs, fig, plot, images, err, calls>>

\* lines 22, 26-27
LatencySubplots ==
    /\ pc = "l22"
    /\ ~Empty(latency_df)
    /\ fig' = NewFigure
    /\ figs' = figs \cup {NewFigure}
    /\ plot' = <<>>
    /\ pc' = "l28"
    /\ trace' = Append(trace, "figure_open")
    /\ UNCHANGED <<file, ret, fh, pos, results, df, latency_df, throughput_df,
                   avg_qps, images, out, err, calls>>

\* lines 28-35: one box over the latency_ns column of the selected rows
LatencyBoxplot ==
    /\ pc = "l28"
    /\ plot' = <<"box", Column(latency_df.rows, "latency_ns")>>
    /\ pc' = "l37"
    /\ UNCHANGED <<file, ret, fh, pos, results, df, latency_df, throughput_df,
                   avg_qps, figs, fig, images, out, err, trace, calls>>

\* lines 37-38
LatencySave ==
    /\ pc = "l37"
    /\ out' = Append(out, "saving_latency")
    /\ images' = [images EXCEPT ![LATENCY_PNG] = <<plot>>]
    /\ pc' = "l39"
    /\ trace' = Append(trace, "latency_saved")
    /\ UNCHANGED <<file, ret, fh, pos, results, df, latency_df, throughput_df,
                   avg_qps, figs, fig, plot, err, calls>>

\* the function returns with its figure left open
LatencyReturnOpen ==
    /\ pc = "l39"
    /\ pc' = ret
    /\ trace' = Append(trace, "latency_return")
    /\ UNCHANGED <<file, ret, fh, pos, results, df, latency_df, throughput_df,
                   avg_qps, figs, fig, plot, images, out, err, calls>>

\* line 39: plt.close(fig), and the return
LatencyClose ==
    /\ pc = "l39"
    /\ figs' = figs \ {fig}
    /\ pc' = ret
    /\ trace' = Append(Append(trace, "figure_close"), "latency_return")
    /\ UNCHANGED <<file, ret, fh, pos, results, df, latency_df, throughput_df,
                   avg_qps, fig, plot, images, out, err, calls>>

\* --------------------------------------------- create_throughput_chart
\* rows of the throughput benchmark with a latency above zero
SelectPositive(d) ==
    [columns |-> d.columns,
     rows |-> SelectSeq(Filter(d.rows, THROUGHPUT_NAME),
                        LAMBDA r : r.latency_ns[1] > 0)]
\* line 43
SelectThroughput(d) == Select(d, THROUGHPUT_NAME)

ThroughputFilter ==
    /\ pc = "l43"
    /\ IF "name" \in df.columns
       THEN /\ throughput_df' = SelectThroughput(df)
            /\ pc' = "l44"
            /\ err' = err
       ELSE /\ throughput_df' = throughput_df
            /\ pc' = "crashed"
            /\ err' = "KeyError"
    /\ UNCHANGED <<file, ret, fh, pos, results, df, latency_df, avg_qps,
                   figs, fig, plot, images, out, trace, calls>>

\* lines 44-46
ThroughputSkip ==
    /\ pc = "l44"
    /\ Empty(throughput_df)
    /\ out' = Append(out, "no_throughput_data")
    /\ pc' = ret
    /\ trace' = Append(trace, "throughput_return")
    /\ UNCHANGED <<file, ret, fh, pos, results, df, latency_df, throughput_df,
                   avg_qps, figs, fig, plot, images, err, calls>>

\* the frame with the column qps = 1e9 / latency_ns added
WithQps(d) ==
    [columns |-> d.columns \cup {"qps"},
     rows |-> [i \in 1 .. Len(d.rows) |->
                  [name |-> d.rows[i].name,
                   latency_ns |-> d.rows[i].latency_ns,
                   qps |-> Qps(d.rows[i].latency_ns)]]]

\* the qps column written to the caller's frame as well
ThroughputQpsShared ==
    /\ pc = "l44"
    /\ ~Empty(throughput_df)
    /\ throughput_df' = WithQps(throughput_df)
    /\ df' = WithQps(df)
    /\ pc' = "l52"
    /\ UNCHANGED <<file, ret, fh, pos, results, latency_df, avg_qps, figs,
                   fig, plot, images, out, err, trace, calls>>

\* lines 44, 49: throughput_df is a frame of its own (a boolean mask
\* copies), so the new column does not reach df
ThroughputQps ==
    /\ pc = "l44"
    /\ ~Empty(throughput_df)
    /\ throughput_df' = WithQps(throughput_df)
    /\ pc' = "l52"
    /\ UNCHANGED <<file, ret, fh, pos, results, df, latency_df, avg_qps, figs,
                   fig, plot, images, out, err, trace, calls>>

\* line 52: throughput_df['qps'].mean()
MeanQps(d) == Mean(Column(d.rows, "qps"))

ThroughputMean ==
    /\ pc = "l52"
    /\ avg_qps' = MeanQps(throughput_df)
    /\ pc' = "l54"
    /\ UNCHANGED <<file, ret, fh, pos, results, df, latency_df, throughput_df,
                   figs, fig, plot, images, out, err, trace, calls>>

\* lines 54-55
ThroughputSubplots ==
    /\ pc = "l54"
    /\ fig' = NewFigure
    /\ figs' = figs \cup {NewFigure}
    /\ plot' = <<>>
    /\ pc' = "l57"
    /\ trace' = Append(trace, "figure_open")
    /\ UNCHANGED <<file, ret, fh, pos, results, df, latency_df, throughput_df,
                   avg_qps, images, out, err, calls>>

\* lines 57-64: one bar of height avg_qps
ThroughputBar ==
    /\ pc = "l57"
    /\ plot' = <<"bar", avg_qps>>
    /\ pc' = "l66"
    /\ UNCHANGED <<file, ret, fh, pos, results, df, latency_df, throughput_df,
                   avg_qps, figs, fig, images, out, err, trace, calls>>

\* lines 66-67
ThroughputSave ==
    /\ pc = "l66"
    /\ out' = Append(out, "saving_throughput")
    /\ images' = [images EXCEPT ![THROUGHPUT_PNG] = <<plot>>]
    /\ pc' = "l68"
    /\ trace' = Append(trace, "throughput_saved")
    /\ UNCHANGED <<file, ret, fh, pos, results, df, latency_df, throughput_df,
                   avg_qps, figs, fig, plot, err, calls>>

\* line 68: plt.close(fig), and the return
ThroughputClose ==
    /\ pc = "l68"
    /\ figs' = figs \ {fig}
    /\ pc' = ret
    /\ trace' = Append(Append(trace, "figure_close"), "throughput_return")
    /\ UNCHANGED <<file, ret, fh, pos, results, df, latency_df, throughput_df,
                   avg_qps, fig, plot, images, out, err, calls>>

LatencySteps ==
    \/ LatencyFilter
    \/ LatencySkip
    \/ LatencySubplots
    \/ LatencyBoxplot
    \/ LatencySave
    \/ LatencyClose

ThroughputSteps ==
    \/ ThroughputFilter
    \/ ThroughputSkip
    \/ ThroughputQps
    \/ ThroughputMean
    \/ ThroughputSubplots
    \/ ThroughputBar
    \/ ThroughputSave
    \/ ThroughputClose

\* ------------------------------------------------------- the program
Next ==
    \/ ParseCall
    \/ OpenFile
    \/ ParseSkip
    \/ ParseAppend
    \/ ParseRaise
    \/ ParseEnd
    \/ ParseReturn
    \/ MainCallLatency
    \/ MainNoData
    \/ MainCallThroughput
    \/ LatencySteps
    \/ ThroughputSteps

Spec == Init /\ [][Next]_vars

\* ------------------------------- the chart functions on their own
\* the records parse_benchmark_results can produce
Records ==
    {RecordOf(Match[l]) :
        l \in {x \in Lines : Match[x].ok /\ FloatOk(Match[x].g3)}}

\* a dataset is in hand and no function is running
InitCharts ==
    /\ file = <<>>
    /\ pc = "idle"
    /\ ret = "none"
    /\ fh = "closed"
    /\ pos = 1
    /\ results \in SeqsUpTo(Records, MaxRecords)
    /\ df = DataFrame(results)
    /\ Locals

\* create_latency_chart(df)
CallLatency ==
    /\ pc = "idle"
    /\ calls < MaxCalls
    /\ pc' = "l21"
    /\ ret' = "idle"
    /\ calls' = calls + 1
    /\ trace' = Append(trace, "latency_call")
    /\ UNCHANGED <<file, fh, pos, results, df, latency_df, throughput_df,
                   avg_qps, figs, fig, plot, images, out, err>>

\* create_throughput_chart(df)
CallThroughput ==
    /\ pc = "idle"
    /\ calls < MaxCalls
    /\ pc' = "l43"
    /\ ret' = "idle"
    /\ calls' = calls + 1
    /\ trace' = Append(trace, "throughput_call")
    /\ UNCHANGED <<file, fh, pos, results, df, latency_df, throughput_df,
                   avg_qps, figs, fig, plot, images, out, err>>

NextCharts ==
    \/ CallLatency
    \/ CallThroughput
    \/ LatencySteps
    \/ ThroughputSteps

SpecCharts == InitCharts /\ [][NextCharts]_vars

\* ============================================================ properties
Count(S) == Cardinality(S)
ParsePcs == {"l71", "l8", "l9"}
\* lines the loop has passed
Passed == 1 .. (IF pos - 1 < Len(file) THEN pos - 1 ELSE Len(file))
Matching(I) == {i \in I : Match[file[i]].ok}

\* C1: for every input file parse_benchmark_results returns a Dataset with
\* exactly one record per line that matches the pattern, in line order; no
\* line makes it raise.
C1_OneRecordPerMatchingLine ==
    pc \notin ParsePcs =>
        /\ err = "none"
        /\ Len(results) = Count(Matching(1 .. Len(file)))

\* C2: every record has a finite latency_ns >= 0, and a matching line whose
\* latency text is no decimal number is skipped silently: no error is
\* raised and the loop goes on to the end of the file.
C2_BadLatencySkipped ==
    /\ \A k \in 1 .. Len(results) :
           IsFinite(results[k].latency_ns) /\ results[k].latency_ns[1] >= 0
    /\ err # "ValueError"
    /\ pc \notin ParsePcs => pos = Len(file) + 1

\* the first column of a line, and that column up to its first '-'
FirstOf(s, C) == SetMin({i \in 1 .. Len(s) : s[i] \in C} \cup {Len(s) + 1})
FirstToken(line) == SubSeq(line, 1, FirstOf(line, Space) - 1)
ExpectedName(line) ==
    SubSeq(FirstToken(line), 1, FirstOf(FirstToken(line), {"-"}) - 1)
\* the column that stands directly before the first 'ns/op'
UnitAt(line) == SetMin({i \in 1 .. Len(line) : LitAt(line, i, NsOpLit)})
TokenEnd(line) == SetMax({i \in 1 .. (UnitAt(line) - 1) : line[i] \notin Space})
TokenStart(line) ==
    SetMax({i \in 1 .. TokenEnd(line) : line[i] \in Space}) + 1
LatencyToken(line) == SubSeq(line, TokenStart(line), TokenEnd(line))
\* x is the number the decimal text tok writes
DecimalIs(tok, x) ==
    LET digits == SelectSeq(tok, LAMBDA c : c \in Digit)
        frac == IF Dots(tok) = {} THEN 0 ELSE Len(tok) - SetMin(Dots(tok))
    IN  x[1] * Pow10(frac) = DigitsValue(digits) * x[2]
\* what the text of each matching line says its record is
Expected ==
    [l \in {x \in Lines : Match[x].ok} |->
        [name |-> ExpectedName(l), latency |-> LatencyToken(l)]]
\* the record of line i is the one at this index
RecordIndex(i) == Count(Matching(1 .. i))

\* C3: the record of a matching line has as name the first column with the
\* '-<digits>' suffix removed and as latency_ns the number written in the
\* column before 'ns/op'; the iteration count and trailing columns play no
\* part, so lines that differ only in those get the same name.
C3_NameAndLatencyExtracted ==
    \A i \in Matching(Passed) :
        /\ RecordIndex(i) <= Len(results)
        /\ results[RecordIndex(i)].name = Expected[file[i]].name
        /\ DecimalIs(Expected[file[i]].latency,
                     results[RecordIndex(i)].latency_ns)

C3_Witness ==
    /\ pc = "l17"
    /\ Len(file) = 2
    /\ Len(results) = 2
    /\ FirstToken(file[1]) # FirstToken(file[2])
    /\ results[1].name = results[2].name
    /\ results[1].latency_ns # results[2].latency_ns

Named(d, name) == {i \in 1 .. Len(d.rows) : d.rows[i].name = name}
Said(msg) == \E k \in 1 .. Len(out) : out[k] = msg

\* C4: once the Dataset is non-empty, at the end of the run each image is
\* written exactly when the Dataset has a record of that chart's benchmark,
\* and a chart without data is skipped with its message, whatever happened
\* to the other chart.
C4_ChartsIndependent ==
    (pc = "done" /\ ~Empty(df)) =>
        /\ images[LATENCY_PNG] # <<>> <=> Named(df, LATENCY_NAME) # {}
        /\ images[THROUGHPUT_PNG] # <<>> <=> Named(df, THROUGHPUT_NAME) # {}
        /\ Said("no_latency_data") <=> Named(df, LATENCY_NAME) = {}
        /\ Said("no_throughput_data") <=> Named(df, THROUGHPUT_NAME) = {}

C4_Witness ==
    /\ pc = "done"
    /\ Named(df, LATENCY_NAME) = {}
    /\ out = <<"no_latency_data", "saving_throughput">>
    /\ images[LATENCY_PNG] = <<>>
    /\ images[THROUGHPUT_PNG] # <<>>

Happened(e) == \E k \in 1 .. Len(trace) : trace[k] = e

\* C5: with an empty Dataset the program calls neither chart function,
\* writes no image, prints the no-data message once and ends normally.
C5_EmptyDatasetNoCharts ==
    (Happened("parse_return") /\ Empty(df)) =>
        /\ calls = 0
        /\ pc \in {"l72", "done"}
        /\ err = "none"
        /\ \A p \in Paths : images[p] = <<>>
        /\ figs = {}
        /\ out = IF pc = "done" THEN <<"no_data">> ELSE <<>>

C5_Witness ==
    /\ pc = "done"
    /\ Len(file) = 2
    /\ Empty(df)
    /\ out = <<"no_data">>

\* x * y, cancelling before multiplying
Mul(x, y) ==
    IF ~IsFinite(x) \/ ~IsFinite(y) THEN Inf
    ELSE LET g == Gcd(x[1], y[2])
             h == Gcd(y[1], x[2])
         IN  Ratio((x[1] \div g) * (y[1] \div h), (x[2] \div h) * (y[2] \div g))
\* the k-th index of df with the throughput benchmark's name
KthNamed(k) ==
    CHOOSE i \in Named(df, THROUGHPUT_NAME) :
        Count({j \in Named(df, THROUGHPUT_NAME) : j <= i}) = k
QpsPcs == {"l52", "l54", "l57", "l66", "l68"}
MeanPcs == {"l54", "l57", "l66", "l68"}

\* C6: the bar height is the arithmetic mean of 1e9 / latency_ns over
\* exactly the records whose whole name is the throughput benchmark's, each
\* counted once; three records of latency 2000.0 give 500000.
C6_MeanQpsOverNamedRecords ==
    /\ pc \in QpsPcs =>
          /\ Len(throughput_df.rows) = Count(Named(df, THROUGHPUT_NAME))
          /\ \A k \in 1 .. Len(throughput_df.rows) :
                /\ throughput_df.rows[k].latency_ns
                       = df.rows[KthNamed(k)].latency_ns
                /\ IF throughput_df.rows[k].latency_ns[1] = 0
                   THEN throughput_df.rows[k].qps = Inf
                   ELSE Mul(throughput_df.rows[k].qps,
                            throughput_df.rows[k].latency_ns)
                            = <<NANOS_PER_SEC, 1>>
    /\ pc \in MeanPcs =>
          /\ Mul(avg_qps, <<Len(throughput_df.rows), 1>>)
                 = Sum(Column(throughput_df.rows, "qps"))
          /\ (\A k \in 1 .. Len(throughput_df.rows) :
                  throughput_df.rows[k].latency_ns = <<2000, 1>>)
                 => avg_qps = <<500000, 1>>
    /\ pc = "l68" => images[THROUGHPUT_PNG] = <<(<<"bar", avg_qps>>)>>

C6_Witness ==
    /\ pc = "l68"
    /\ Len(df.rows) = 3
    /\ Count(Named(df, THROUGHPUT_NAME)) = 2
    /\ \E i \in 1 .. 3 : StartsWith(df.rows[i].name, THROUGHPUT_NAME)
                            /\ df.rows[i].name # THROUGHPUT_NAME
    /\ throughput_df.rows[1].latency_ns # throughput_df.rows[2].latency_ns
    /\ IsFinite(avg_qps)

C6_Example ==
    /\ pc = "l68"
    /\ Count(Named(df, THROUGHPUT_NAME)) = 3
    /\ \A i \in 1 .. 3 : df.rows[i].latency_ns = <<2000, 1>>
    /\ images[THROUGHPUT_PNG] = <<(<<"bar", <<500000, 1>> >>)>>

ChartEvents ==
    {"latency_call", "latency_saved", "latency_return", "throughput_call",
     "throughput_saved", "throughput_return", "figure_open", "figure_close"}
Times(e) == Count({k \in 1 .. Len(trace) : trace[k] = e})
Earlier(e, k) == \E j \in 1 .. (k - 1) : trace[j] = e
NoFigurePcs ==
    {"l71", "l8", "l9", "l17", "l72", "l74", "done", "crashed", "l21", "l22",
     "l43", "l44", "l52", "l54"}

\* C7: the file is parsed once and closed, then the latency chart runs to
\* its return, then the throughput chart; no chart step comes before the
\* end of parsing, and a figure is closed before the next operation, so at
\* most one is open.
C7_StrictOrder ==
    /\ \A e \in {"parse_call", "file_open", "file_close", "parse_return",
                 "latency_call", "throughput_call"} : Times(e) <= 1
    /\ fh = "open" <=> pc = "l9"
    /\ \A k \in 1 .. Len(trace) :
          /\ trace[k] \in ChartEvents => Earlier("parse_return", k)
          /\ trace[k] = "parse_return" => trace[k - 1] = "file_close"
          /\ trace[k] = "latency_call" => trace[k - 1] = "parse_return"
          /\ trace[k] = "throughput_call" => trace[k - 1] = "latency_return"
          /\ trace[k] \in {"latency_return", "throughput_return"} =>
                 trace[k - 1] \in {"figure_close", "latency_call",
                                   "throughput_call"}
    /\ Cardinality(figs) <= 1
    /\ pc \in NoFigurePcs => figs = {}
    /\ Times("figure_open") - Times("figure_close") = Cardinality(figs)

C7_Witness ==
    /\ pc = "done"
    /\ Times("figure_open") = 2
    /\ Times("figure_close") = 2
    /\ images[LATENCY_PNG] # <<>>
    /\ images[THROUGHPUT_PNG] # <<>>

ZeroNamed(d) == {i \in Named(d, THROUGHPUT_NAME) : d.rows[i].latency_ns[1] = 0}

\* C8: a throughput record of latency 0 is not filtered out and does not
\* make the chart skip; its 1e9 / latency_ns is infinite and so is the mean
\* on the bar.
C8_ZeroLatencyUnguarded ==
    ZeroNamed(df) # {} =>
        /\ pc \in {"l44"} \cup QpsPcs =>
               Count(ZeroNamed(throughput_df)) = Count(ZeroNamed(df))
        /\ pc = "l44" => ~Empty(throughput_df)
        /\ pc \in QpsPcs =>
               \A i \in ZeroNamed(throughput_df) :
                   throughput_df.rows[i].qps = Inf
        /\ pc \in MeanPcs => avg_qps = Inf
        /\ images[THROUGHPUT_PNG] \in {<<>>, <<(<<"bar", Inf>>)>>}
        /\ ~Said("no_throughput_data")

C8_Witness ==
    /\ pc = "idle"
    /\ Count(ZeroNamed(df)) = 1
    /\ Count(Named(df, THROUGHPUT_NAME)) = 2
    /\ images[THROUGHPUT_PNG] = <<(<<"bar", Inf>>)>>

\* the latencies of the latency benchmark's records, in Dataset order
RECURSIVE LatenciesOf(_, _)
LatenciesOf(rows, name) ==
    IF rows = <<>> THEN <<>>
    ELSE (IF Head(rows).name = name THEN <<Head(rows).latency_ns>> ELSE <<>>)
             \o LatenciesOf(Tail(rows), name)

\* C9: the chart functions leave the Dataset as it was built: the same
\* records in the same order with the two fields name and latency_ns (no
\* qps); so every latency image holds the same points, those of the
\* Dataset, whatever calls came before.
C9_DatasetReadOnly ==
    /\ df = DataFrame(results)
    /\ "qps" \notin df.columns
    /\ \A i \in 1 .. Len(df.rows) : DOMAIN df.rows[i] = {"name", "latency_ns"}
    /\ images[LATENCY_PNG] # <<>> =>
           images[LATENCY_PNG]
               = <<(<<"box", LatenciesOf(results, LATENCY_NAME)>>)>>

C9_Witness ==
    /\ pc = "idle"
    /\ calls = 2
    /\ trace[1] = "throughput_call"
    /\ Happened("throughput_saved")
    /\ Happened("latency_saved")
    /\ "qps" \in throughput_df.columns

\* C10: the pattern is tied to the start of the line: a line whose first
\* characters are not 'Benchmark' gives no record, even when a later part
\* of it has the whole form.
Headed(I) == {i \in I : LitAt(file[i], 1, BenchmarkLit)}
C10_AnchoredAtLineStart ==
    /\ Matching(1 .. Len(file)) \subseteq Headed(1 .. Len(file))
    /\ Len(results) <= Count(Headed(Passed))

C10_Witness ==
    /\ pc = "l17"
    /\ Len(file) = 1
    /\ \E s \in 2 .. Len(file[1]) : MatchAt(file[1], s).ok
    /\ results = <<>>

=============================================================================
